---- MODULE Spec2Model ----
(***************************************************************************)
(* Model of the MPI join exercise: the partition geometry helpers of       *)
(* helpers.cpp, the input generators, local_join_impl / parallel_join_impl *)
(* and the SPMD driver main() of main.cpp.                                 *)
(*                                                                         *)
(* Conventions.  C++ vectors are sequences; a 0-based C++ index i is the   *)
(* 1-based position i+1.  The double payload column (data0) is modelled by *)
(* integers n standing for the double n.0: the program only copies these   *)
(* values, it never computes with them.  The quotient total/(double)P and  *)
(* its ceil are exact for total < 2^53, far above every bound used here.   *)
(***************************************************************************)
EXTENDS Integers, Sequences, FiniteSets

VARIABLES
    n_pes,          \* main.cpp:10  number of MPI ranks
    keys1_global,   \* the build relation over all ranks
    keys2_global,   \* the probe relation: keys ...
    data0_global,   \*   ... first payload column (double)
    data1_global,   \*   ... second payload column (int)
    pc,             \* per rank: the next step of the rank
    k1, k2, d1, d2, \* per rank: main's input buffers (main.cpp:81-86)
    o_keys, o1, o2, \* per rank: main's output buffers (main.cpp:119-121)
    entered,        \* per rank: the collectives the rank has entered, in order
    oob,            \* per rank: the join read a vector past its end
    total,          \* geometry harness: length of the distributed array
    chunk           \* geometry harness: per rank <<start, end, portion>>

vars == <<n_pes, keys1_global, keys2_global, data0_global, data1_global, pc,
          k1, k2, d1, d2, o_keys, o1, o2, entered, oob, total, chunk>>

inputs == <<keys1_global, keys2_global, data0_global, data1_global>>
buffers == <<k1, k2, d1, d2>>
outputs == <<o_keys, o1, o2>>
geometry == <<total, chunk>>

(* Bounds of the model. *)
MaxRanks == 7
MaxJoinRanks == 4
MaxRows == 2
MaxKey == 1
MaxTotal == 12
MaxGeomRanks == 5

Ranks == 0 .. (n_pes - 1)
Keys == 0 .. MaxKey
PayloadA == {1, 2}
JunkValues == {-1, 9}

Min(a, b) == IF a <= b THEN a ELSE b
SeqsUpTo(S, n) == UNION {[1 .. m -> S] : m \in 0 .. n}
Range(s) == {s[i] : i \in 1 .. Len(s)}

---------------------------------------------------------------------------
(* Partition geometry, helpers.cpp:19-53 *)

div_chunk_floor(tot, num_pes) == tot \div num_pes

\* (int64_t)ceil(total / ((double)num_pes))
div_chunk(tot, num_pes) == (tot + num_pes - 1) \div num_pes

get_start_unclamped(tot, num_pes, node_id) == node_id * div_chunk(tot, num_pes)

get_start(tot, num_pes, node_id) ==
    Min(tot, node_id * div_chunk(tot, num_pes))

get_end(tot, num_pes, node_id) ==
    Min(tot, (node_id + 1) * div_chunk(tot, num_pes))

get_node_portion(tot, num_pes, node_id) ==
    get_end(tot, num_pes, node_id) - get_start(tot, num_pes, node_id)

\* std::vector's range constructor {v.begin() + a, v.begin() + b}
Slice(v, a, b) == SubSeq(v, a + 1, b)

\* This rank's slice of a global vector of length size
ChunkOf(v, size, num_pes, rank) ==
    Slice(v, get_start(size, num_pes, rank), get_end(size, num_pes, rank))

---------------------------------------------------------------------------
(* Input generators, helpers.cpp:102-111 and 219-230 *)

Example_keys1 == <<0, 1, 1, 2, 1, 0>>
Example_keys2 == <<1, 0, 4, 2, 5, 3>>
Example_data0 == <<1, 2, 3, 4, 5, 6>>
Example_data1 == <<4, 1, 2, 3, 0, 5>>

generate_example_inputs(rank, num_pes) ==
    [keys1 |-> ChunkOf(keys1_global, Len(keys1_global), num_pes, rank),
     keys2 |-> ChunkOf(keys2_global, Len(keys2_global), num_pes, rank),
     data0 |-> ChunkOf(data0_global, Len(keys2_global), num_pes, rank),
     data1 |-> ChunkOf(data1_global, Len(keys2_global), num_pes, rank)]

\* _gen_range32 over all ranks: the vector 0, 1, ..., size-1
gen_range32(size) == [i \in 1 .. size |-> i - 1]

---------------------------------------------------------------------------
(* Local join, main.cpp:27-70 *)

RECURSIVE FindFrom(_, _, _)
\* linear scan of std::find from position i; Len(s) + 1 is s.end()
FindFrom(s, k, i) ==
    IF i > Len(s) THEN i
    ELSE IF s[i] = k THEN i
    ELSE FindFrom(s, k, i + 1)

RECURSIVE FindLastFrom(_, _, _)
FindLastFrom(s, k, i) ==
    IF i < 1 THEN Len(s) + 1
    ELSE IF s[i] = k THEN i
    ELSE FindLastFrom(s, k, i - 1)

find_last(s, k) == FindLastFrom(s, k, Len(s))

\* std::find(keys2.begin(), keys2.end(), k), main.cpp:38
find(s, k) == FindFrom(s, k, 1)

\* v[index] of std::vector: unchecked, a read past the end is undefined
\* behaviour and yields whatever the build produces (junk)
At(v, p, junk) == IF p <= Len(v) THEN v[p] ELSE junk

EmptyResult == [keys |-> <<>>, data0 |-> <<>>, data1 |-> <<>>, oob |-> FALSE]

RECURSIVE JoinLoop(_, _, _, _, _, _, _)
\* the loop of main.cpp:37-45 from build row i on, acc the result vectors
JoinLoop(keys1, keys2, data0, data1, junk, i, acc) ==
    IF i > Len(keys1) THEN acc
    ELSE LET p == find(keys2, keys1[i]) IN
         IF p # Len(keys2) + 1
         THEN JoinLoop(keys1, keys2, data0, data1, junk, i + 1,
                  [keys  |-> Append(acc.keys, keys2[p]),
                   data0 |-> Append(acc.data0, At(data0, p, junk)),
                   data1 |-> Append(acc.data1, At(data1, p, junk)),
                   oob   |-> acc.oob \/ p > Len(data0) \/ p > Len(data1)])
         ELSE JoinLoop(keys1, keys2, data0, data1, junk, i + 1, acc)

RECURSIVE JoinLoopNoEndCheck(_, _, _, _, _, _, _)
\* the loop without the test p != keys2.end()
JoinLoopNoEndCheck(keys1, keys2, data0, data1, junk, i, acc) ==
    IF i > Len(keys1) THEN acc
    ELSE LET p == find(keys2, keys1[i]) IN
         JoinLoopNoEndCheck(keys1, keys2, data0, data1, junk, i + 1,
                  [keys  |-> Append(acc.keys, At(keys2, p, junk)),
                   data0 |-> Append(acc.data0, At(data0, p, junk)),
                   data1 |-> Append(acc.data1, At(data1, p, junk)),
                   oob   |-> acc.oob \/ p > Len(keys2) \/ p > Len(data0)
                                     \/ p > Len(data1)])

RECURSIVE JoinLoopBuildIndex(_, _, _, _, _, _, _)
\* the loop reading data1 at the build row's index instead of the match's
JoinLoopBuildIndex(keys1, keys2, data0, data1, junk, i, acc) ==
    IF i > Len(keys1) THEN acc
    ELSE LET p == find(keys2, keys1[i]) IN
         IF p # Len(keys2) + 1
         THEN JoinLoopBuildIndex(keys1, keys2, data0, data1, junk, i + 1,
                  [keys  |-> Append(acc.keys, keys2[p]),
                   data0 |-> Append(acc.data0, At(data0, p, junk)),
                   data1 |-> Append(acc.data1, At(data1, i, junk)),
                   oob   |-> acc.oob \/ p > Len(data0) \/ i > Len(data1)])
         ELSE JoinLoopBuildIndex(keys1, keys2, data0, data1, junk, i + 1, acc)

local_join_no_end_check(keys1, keys2, data0, data1, junk) ==
    JoinLoopNoEndCheck(keys1, keys2, data0, data1, junk, 1, EmptyResult)

local_join_build_index(keys1, keys2, data0, data1, junk) ==
    JoinLoopBuildIndex(keys1, keys2, data0, data1, junk, 1, EmptyResult)

local_join_impl(keys1, keys2, data0, data1, junk) ==
    JoinLoop(keys1, keys2, data0, data1, junk, 1, EmptyResult)

parallel_join_impl(keys1, keys2, data0, data1, junk) ==
    local_join_impl(keys1, keys2, data0, data1, junk)

---------------------------------------------------------------------------
(* The driver, main.cpp:74-138.  The ranks run main() in parallel and meet *)
(* only in MPI_Barrier; the code between two barriers is one step.         *)

NoBuffers == [r \in Ranks |-> <<>>]

\* MPI_Barrier returns on a rank once every rank has entered that barrier;
\* MPI matches the collectives of the ranks by the order of the calls
BarrierComplete(r) == \A q \in Ranks : Len(entered[q]) >= Len(entered[r])

\* entering a collective: the call site (its line in main.cpp) is recorded
EnterBarrier(r, site) == entered' = [entered EXCEPT ![r] = Append(@, site)]

\* main.cpp:92-97: slice the inputs, then enter the first barrier
Generate(r) ==
    /\ pc[r] = "generate"
    /\ LET g == generate_example_inputs(r, n_pes) IN
         /\ k1' = [k1 EXCEPT ![r] = g.keys1]
         /\ k2' = [k2 EXCEPT ![r] = g.keys2]
         /\ d1' = [d1 EXCEPT ![r] = g.data0]
         /\ d2' = [d2 EXCEPT ![r] = g.data1]
    /\ EnterBarrier(r, 97)
    /\ pc' = [pc EXCEPT ![r] = "barrier1"]
    /\ UNCHANGED <<n_pes, inputs, outputs, oob, geometry>>

AfterBarrier(stage) ==
    CASE stage = "barrier1" -> "print_input"
      [] stage = "barrier2" -> "join"
      [] stage = "barrier3" -> "done"

\* the return of MPI_Barrier, main.cpp:97, 116, 137
MPI_Barrier(r) ==
    /\ pc[r] \in {"barrier1", "barrier2", "barrier3"}
    /\ BarrierComplete(r)
    /\ pc' = [pc EXCEPT ![r] = AfterBarrier(pc[r])]
    /\ UNCHANGED <<n_pes, inputs, buffers, outputs, entered, oob, geometry>>

PrintInputSkipWhenEmpty(r) ==
    /\ pc[r] = "print_input"
    /\ IF k1[r] = <<>> /\ k2[r] = <<>>
       THEN /\ pc' = [pc EXCEPT ![r] = "join"]
            /\ UNCHANGED entered
       ELSE /\ EnterBarrier(r, 116)
            /\ pc' = [pc EXCEPT ![r] = "barrier2"]
    /\ UNCHANGED <<n_pes, inputs, buffers, outputs, oob, geometry>>

\* main.cpp:99-116: print the input rows (no buffer is written), then enter
\* the second barrier
PrintInput(r) ==
    /\ pc[r] = "print_input"
    /\ EnterBarrier(r, 116)
    /\ pc' = [pc EXCEPT ![r] = "barrier2"]
    /\ UNCHANGED <<n_pes, inputs, buffers, outputs, oob, geometry>>

\* the effect of the call of main.cpp:124-128 on rank r: a read past the end
\* of a vector either ends the process (crash) or yields junk
JoinCall(r, crash, junk, next) ==
    LET res == parallel_join_impl(k1[r], k2[r], d1[r], d2[r], junk) IN
    /\ oob' = [oob EXCEPT ![r] = res.oob]
    /\ IF res.oob /\ crash
       THEN /\ pc' = [pc EXCEPT ![r] = "crashed"]
            /\ UNCHANGED outputs
       ELSE /\ pc' = [pc EXCEPT ![r] = next]
            /\ o_keys' = [o_keys EXCEPT ![r] = res.keys]
            /\ o1' = [o1 EXCEPT ![r] = res.data0]
            /\ o2' = [o2 EXCEPT ![r] = res.data1]

\* main.cpp:118-137: join, print the output, enter the third barrier
Join(r) ==
    /\ pc[r] = "join"
    /\ \E crash \in BOOLEAN, junk \in JunkValues :
           JoinCall(r, crash, junk, "barrier3")
    /\ IF pc'[r] = "barrier3" THEN EnterBarrier(r, 137) ELSE UNCHANGED entered
    /\ UNCHANGED <<n_pes, inputs, buffers, geometry>>

Init ==
    /\ n_pes \in 1 .. MaxRanks
    /\ keys1_global = Example_keys1
    /\ keys2_global = Example_keys2
    /\ data0_global = Example_data0
    /\ data1_global = Example_data1
    /\ pc = [r \in Ranks |-> "generate"]
    /\ k1 = NoBuffers /\ k2 = NoBuffers /\ d1 = NoBuffers /\ d2 = NoBuffers
    /\ o_keys = NoBuffers /\ o1 = NoBuffers /\ o2 = NoBuffers
    /\ entered = [r \in Ranks |-> <<>>]
    /\ oob = [r \in Ranks |-> FALSE]
    /\ total = 0
    /\ chunk = <<>>

RankStep(r) ==
    \/ Generate(r)
    \/ MPI_Barrier(r)
    \/ PrintInput(r)
    \/ Join(r)

Next ==
    \/ \E r \in Ranks : Generate(r)
    \/ \E r \in Ranks : MPI_Barrier(r)
    \/ \E r \in Ranks : PrintInput(r)
    \/ \E r \in Ranks : Join(r)

Spec == Init /\ [][Next]_vars

\* every rank is a process of its own that keeps running
FairSpec == Spec /\ \A r \in 0 .. (MaxRanks - 1) : WF_vars(r \in Ranks /\ RankStep(r))

---------------------------------------------------------------------------
(* The join called on relations drawn from bounded sets.  The relations    *)
(* are split over the ranks by the partition geometry, as both generators  *)
(* do; data1 is the row number, as generate_random_inputs makes it.        *)

JoinInit ==
    /\ n_pes \in 1 .. MaxJoinRanks
    /\ keys1_global \in SeqsUpTo(Keys, MaxRows)
    /\ keys2_global \in SeqsUpTo(Keys, MaxRows)
    /\ data0_global \in [1 .. Len(keys2_global) -> PayloadA]
    /\ data1_global = gen_range32(Len(keys2_global))
    /\ pc = [r \in Ranks |-> "join"]
    /\ k1 = [r \in Ranks |-> generate_example_inputs(r, n_pes).keys1]
    /\ k2 = [r \in Ranks |-> generate_example_inputs(r, n_pes).keys2]
    /\ d1 = [r \in Ranks |-> generate_example_inputs(r, n_pes).data0]
    /\ d2 = [r \in Ranks |-> generate_example_inputs(r, n_pes).data1]
    /\ o_keys = NoBuffers /\ o1 = NoBuffers /\ o2 = NoBuffers
    /\ entered = [r \in Ranks |-> <<>>]
    /\ oob = [r \in Ranks |-> FALSE]
    /\ total = 0
    /\ chunk = <<>>

\* main.cpp:124-128 alone: rank r calls parallel_join_impl on its buffers
CallJoin(r) ==
    /\ pc[r] = "join"
    /\ \E crash \in BOOLEAN, junk \in JunkValues :
           JoinCall(r, crash, junk, "returned")
    /\ UNCHANGED <<n_pes, inputs, buffers, entered, geometry>>

JoinNext == \E r \in Ranks : CallJoin(r)

JoinSpec == JoinInit /\ [][JoinNext]_vars

(* The join called on one rank with vectors of any lengths: nothing in the *)
(* signature of main.cpp:27-29 ties the lengths of keys2, data0 and data1. *)
RawInit ==
    /\ n_pes = 1
    /\ keys1_global \in SeqsUpTo(Keys, MaxRows)
    /\ keys2_global \in SeqsUpTo(Keys, MaxRows)
    /\ data0_global \in SeqsUpTo(PayloadA, MaxRows)
    /\ data1_global \in {gen_range32(n) : n \in 0 .. MaxRows}
    /\ pc = [r \in Ranks |-> "join"]
    /\ k1 = [r \in Ranks |-> keys1_global]
    /\ k2 = [r \in Ranks |-> keys2_global]
    /\ d1 = [r \in Ranks |-> data0_global]
    /\ d2 = [r \in Ranks |-> data1_global]
    /\ o_keys = NoBuffers /\ o1 = NoBuffers /\ o2 = NoBuffers
    /\ entered = [r \in Ranks |-> <<>>]
    /\ oob = [r \in Ranks |-> FALSE]
    /\ total = 0
    /\ chunk = <<>>

RawSpec == RawInit /\ [][JoinNext]_vars

---------------------------------------------------------------------------
(* The partition geometry on its own: every rank computes its own slice of *)
(* an array of total elements.                                             *)

GeomInit ==
    /\ n_pes \in 1 .. MaxGeomRanks
    /\ total \in 0 .. MaxTotal
    /\ chunk = [r \in Ranks |-> <<>>]
    /\ keys1_global = <<>> /\ keys2_global = <<>>
    /\ data0_global = <<>> /\ data1_global = <<>>
    /\ pc = [r \in Ranks |-> "geometry"]
    /\ k1 = NoBuffers /\ k2 = NoBuffers /\ d1 = NoBuffers /\ d2 = NoBuffers
    /\ o_keys = NoBuffers /\ o1 = NoBuffers /\ o2 = NoBuffers
    /\ entered = [r \in Ranks |-> <<>>]
    /\ oob = [r \in Ranks |-> FALSE]

\* rank r evaluates get_start, get_end and get_node_portion (as _gen_range32
\* does, helpers.cpp:104-106)
ComputeChunk(r) ==
    /\ chunk[r] = <<>>
    /\ chunk' = [chunk EXCEPT ![r] = <<get_start(total, n_pes, r),
                                      get_end(total, n_pes, r),
                                      get_node_portion(total, n_pes, r)>>]
    /\ UNCHANGED <<n_pes, inputs, pc, buffers, outputs, entered, oob, total>>

GeomNext == \E r \in Ranks : ComputeChunk(r)

GeomSpec == GeomInit /\ [][GeomNext]_vars

---------------------------------------------------------------------------
(* Properties *)

RECURSIVE Sum(_, _)
Sum(f, S) ==
    IF S = {} THEN 0
    ELSE LET x == CHOOSE y \in S : TRUE IN f[x] + Sum(f, S \ {x})

CountIn(s, x) == Cardinality({i \in 1 .. Len(s) : s[i] = x})

AllReturned == \A r \in Ranks : pc[r] = "returned"
AllDone == \A r \in Ranks : pc[r] = "done"
AllComputed == \A r \in Ranks : chunk[r] # <<>>

\* the j-th output row of rank r
OutRow(r, j) == <<o_keys[r][j], o1[r][j], o2[r][j]>>
OutRows(r) == {OutRow(r, j) : j \in 1 .. Len(o_keys[r])}

\* how many output rows over all ranks carry key k / are equal to row
GlobalKeyCount(k) == Sum([r \in Ranks |-> CountIn(o_keys[r], k)], Ranks)
GlobalRowCount(row) ==
    Sum([r \in Ranks |->
            Cardinality({j \in 1 .. Len(o_keys[r]) : OutRow(r, j) = row})],
        Ranks)
GlobalRowTotal == Sum([r \in Ranks |-> Len(o_keys[r])], Ranks)

\* the i-th row of the probe relation
ProbeRow(i) == <<keys2_global[i], data0_global[i], data1_global[i]>>

\* C1: once every rank has returned from the join, each key occurring m
\* times in the build relation and n times in the probe relation is carried
\* by exactly m*n output rows over all ranks.
C1_JoinCompleteness ==
    AllReturned =>
        \A k \in Keys :
            GlobalKeyCount(k) = CountIn(keys1_global, k) * CountIn(keys2_global, k)

\* the output of the join run by a single participant on the whole relations
SingleRankOutput ==
    parallel_join_impl(keys1_global, keys2_global, data0_global, data1_global, 0)
SingleRankRows ==
    {<<SingleRankOutput.keys[j], SingleRankOutput.data0[j], SingleRankOutput.data1[j]>> :
        j \in 1 .. Len(SingleRankOutput.keys)}
SingleRankCount(row) ==
    Cardinality({j \in 1 .. Len(SingleRankOutput.keys) :
        <<SingleRankOutput.keys[j], SingleRankOutput.data0[j],
          SingleRankOutput.data1[j]>> = row})

\* C2: for 1, 2 and 4 participants the rows returned over all ranks are the
\* same multiset: the one a single participant returns for the whole
\* relations.
C2_PartitionIndependence ==
    (AllReturned /\ n_pes \in {1, 2, 4}) =>
        \A row \in SingleRankRows \cup UNION {OutRows(r) : r \in Ranks} :
            GlobalRowCount(row) = SingleRankCount(row)

\* C3: on the example inputs, whatever the number of ranks, the run ends with
\* two rows (0, 2.0, 1), three rows (1, 1.0, 4) and one row (2, 4.0, 3) over
\* all ranks, 6 rows in total.
C3_WorkedExample ==
    AllDone =>
        /\ GlobalRowCount(<<0, 2, 1>>) = 2
        /\ GlobalRowCount(<<1, 1, 4>>) = 3
        /\ GlobalRowCount(<<2, 4, 3>>) = 1
        /\ GlobalRowTotal = 6

Interval(r) == {i \in 0 .. (total - 1) : chunk[r][1] <= i /\ i < chunk[r][2]}

\* C4: the slices [start, end) of the ranks are within [0, total), have
\* start <= end, abut from rank to rank, start at 0 and end at total, are
\* pairwise disjoint, and cover [0, total): the portions are >= 0 and sum
\* to total.
C4_PartitionCoverage ==
    /\ \A r \in Ranks : chunk[r] # <<>> =>
          /\ 0 <= chunk[r][1] /\ chunk[r][1] <= chunk[r][2] /\ chunk[r][2] <= total
          /\ chunk[r][3] = chunk[r][2] - chunk[r][1]
          /\ chunk[r][3] >= 0
          /\ r = 0 => chunk[r][1] = 0
          /\ r = n_pes - 1 => chunk[r][2] = total
          /\ (r + 1 \in Ranks /\ chunk[r + 1] # <<>>) => chunk[r][2] = chunk[r + 1][1]
          /\ \A q \in Ranks : (q # r /\ chunk[q] # <<>>) =>
                 Interval(q) \cap Interval(r) = {}
    /\ AllComputed =>
          /\ UNION {Interval(r) : r \in Ranks} = 0 .. (total - 1)
          /\ Sum([r \in Ranks |-> chunk[r][3]], Ranks) = total

C4_Witness ==
    /\ AllComputed
    /\ 0 < total /\ total < n_pes
    /\ \E r \in Ranks : chunk[r][3] = 0

\* C5: on every rank that has returned, the three output vectors have the
\* same length and every output row is, key and both payloads, one row of
\* the probe relation whose key occurs in the build relation.
C5_RowCorrelation ==
    \A r \in Ranks : pc[r] = "returned" =>
        /\ Len(o1[r]) = Len(o_keys[r])
        /\ Len(o2[r]) = Len(o_keys[r])
        /\ \A j \in 1 .. Len(o_keys[r]) :
              /\ \E i \in 1 .. Len(keys2_global) : OutRow(r, j) = ProbeRow(i)
              /\ o_keys[r][j] \in Range(keys1_global)

C5_Witness ==
    \E r \in Ranks :
        /\ pc[r] = "returned"
        /\ Len(o_keys[r]) = 2
        /\ o_keys[r][1] # o_keys[r][2]
        /\ o2[r][1] > o2[r][2]

BuildEmpty == keys1_global = <<>>
ProbeEmpty == keys2_global = <<>>

\* C6: when the build relation or the probe relation is empty on every
\* rank, every rank can make the call, the call returns (it neither crashes
\* nor enters a collective in which it could block) and its output is empty.
C6_EmptyRelation ==
    (BuildEmpty \/ ProbeEmpty) =>
        \A r \in Ranks :
            /\ pc[r] \in {"join", "returned"}
            /\ pc[r] = "join" => ENABLED CallJoin(r)
            /\ entered[r] = <<>>
            /\ ~oob[r]
            /\ o_keys[r] = <<>> /\ o1[r] = <<>> /\ o2[r] = <<>>

C6_Witness ==
    /\ ProbeEmpty /\ ~BuildEmpty
    /\ n_pes >= 2
    /\ AllReturned

Skewed == Len(keys1_global) < n_pes \/ Len(keys2_global) < n_pes

IsPrefix(s, t) == Len(s) <= Len(t) /\ SubSeq(t, 1, Len(s)) = s

\* C7: when there are more ranks than rows, the ranks enter the collectives
\* in one and the same order (the barriers of main.cpp:97, 116 and 137), no
\* rank fails, and every rank eventually reaches the end of main.
C7_SkewedRanksComplete ==
    /\ [](Skewed =>
            \A r \in Ranks :
                /\ IsPrefix(entered[r], <<97, 116, 137>>)
                /\ pc[r] # "crashed" /\ ~oob[r]
                /\ pc[r] = "done" => entered[r] = <<97, 116, 137>>)
    /\ (Skewed ~> AllDone)

C7_Witness ==
    /\ Skewed
    /\ AllDone
    /\ \E r \in Ranks :
          /\ k1[r] = <<>> /\ k2[r] = <<>>
          /\ entered[r] = <<97, 116, 137>>
    /\ \E r \in Ranks : k1[r] # <<>>

Mismatched(r) == Len(d1[r]) # Len(k2[r]) \/ Len(d2[r]) # Len(k2[r])

\* C8: a join call on a rank whose probe key vector and payload vectors
\* differ in length ends in an error, before any collective, with no output
\* row and without reading a vector past its end.
C8_ConfigurationErrorsRejected ==
    \A r \in Ranks : (Mismatched(r) /\ pc[r] # "join") =>
        /\ pc[r] = "error"
        /\ entered[r] = <<>>
        /\ o_keys[r] = <<>> /\ o1[r] = <<>> /\ o2[r] = <<>>
        /\ ~oob[r]

\* C9 as claimed: every rank but the last holds ceil(total/P) rows.
C9_OnlyLastRankSmaller ==
    \A r \in Ranks : (chunk[r] # <<>> /\ r # n_pes - 1) =>
        chunk[r][3] = div_chunk(total, n_pes)

\* C9, amended: no rank holds more than ceil(total/P) rows; a rank r with
\* (r+1)*ceil(total/P) <= total holds exactly ceil(total/P); the smaller
\* chunks are the trailing ranks: after a rank that holds fewer than
\* ceil(total/P) rows every rank holds zero rows.
C9_TrailingRanksAbsorbRemainder ==
    \A r \in Ranks : chunk[r] # <<>> =>
        /\ chunk[r][3] <= div_chunk(total, n_pes)
        /\ (r + 1) * div_chunk(total, n_pes) <= total =>
               chunk[r][3] = div_chunk(total, n_pes)
        /\ chunk[r][3] < div_chunk(total, n_pes) =>
               \A q \in Ranks : (q > r /\ chunk[q] # <<>>) => chunk[q][3] = 0

C9_Witness ==
    /\ AllComputed
    /\ n_pes >= 3
    /\ chunk[n_pes - 1][3] = 0
    /\ 0 < chunk[n_pes - 2][3]
    /\ chunk[n_pes - 2][3] < div_chunk(total, n_pes)

InKeys2(r, k) == k \in Range(k2[r])
FirstMatch(r, k) ==
    CHOOSE i \in 1 .. Len(k2[r]) :
        k2[r][i] = k /\ \A j \in 1 .. (i - 1) : k2[r][j] # k
Matched(r) == SelectSeq(k1[r], LAMBDA k : InKeys2(r, k))

\* C10: on a rank that has returned, the output keys are the local build
\* keys that occur in the local keys2, in build order, one row each; every
\* row carries the payloads of the lowest-index probe row with its key; the
\* input buffers are the rank's chunks, unchanged.
C10_OneRowPerBuildRow ==
    \A r \in Ranks : pc[r] = "returned" =>
        /\ o_keys[r] = Matched(r)
        /\ Len(o_keys[r]) <= Len(k1[r])
        /\ Len(o1[r]) = Len(o_keys[r]) /\ Len(o2[r]) = Len(o_keys[r])
        /\ \A j \in 1 .. Len(o_keys[r]) :
              /\ o1[r][j] = d1[r][FirstMatch(r, o_keys[r][j])]
              /\ o2[r][j] = d2[r][FirstMatch(r, o_keys[r][j])]
        /\ k1[r] = ChunkOf(keys1_global, Len(keys1_global), n_pes, r)
        /\ k2[r] = ChunkOf(keys2_global, Len(keys2_global), n_pes, r)
        /\ d1[r] = ChunkOf(data0_global, Len(keys2_global), n_pes, r)
        /\ d2[r] = ChunkOf(data1_global, Len(keys2_global), n_pes, r)

C10_Witness ==
    \E r \in Ranks :
        /\ pc[r] = "returned"
        /\ Len(k1[r]) = 2 /\ Len(o_keys[r]) = 1
        /\ Len(k2[r]) = 2 /\ k2[r][1] = k2[r][2]
        /\ d1[r][1] # d1[r][2]

====
